---- MODULE Spec2Model ----
(***************************************************************************)
(* AdultBlocker: the marker-delimited hosts-file editor (hosts_manager.py), *)
(* the JSON state store (state_store.py) and the timer-gated main window    *)
(* (ui.py, main.py, onboarding.py, startup.py).                             *)
(*                                                                          *)
(* Text is modelled as a sequence of tokens.  A token is a piece of text    *)
(* that the code never looks inside: the two marker literals, the newline,  *)
(* the space, the "www." prefix, a domain name, an address, a comment.      *)
(* Substring search for a marker is therefore search for its token.         *)
(***************************************************************************)
EXTENDS Integers, Sequences, FiniteSets, TLC

VARIABLES
    hosts,      \* content of the OS hosts file
    hosts0,     \* content of the hosts file when the model starts (history)
    last,       \* the most recent HostsManager call: op, argument, outcome,
                \* the file before it, whether it repeats the call before it
    prev,       \* op and outcome of the call before it
    ncalls,     \* number of HostsManager calls made so far
    store,      \* content of state.json
    now,        \* time.time(), in ticks
    pc,         \* where the user interface is: off, onboarding, idle, a dialog
    ui,         \* what the main window shows (set by _update_status)
    evt,        \* the most recent sensitive operation of the window (history)
    tlog,       \* the most recent timer event of the store (history)
    disk,       \* the files state.json and state.tmp of the application directory
    sp,         \* the process that owns the StateStore: where it is in a write
    ret,        \* what the most recent load() gave its caller (history)
    aev,        \* the most recent "Apply blocks" of the window (history)
    ins,        \* the most recent onboarding "Install" (history)
    off,        \* was the block turned off by the window, and has a launch
                \* put it back since (history)
    xp          \* a raw domain list and what _expand_domains made of it

vars == <<hosts, hosts0, last, prev, ncalls, store, now, pc, ui, evt, tlog,
          disk, sp, ret, aev, ins, off, xp>>

(***************************************************************************)
(* Bounds of the model.                                                     *)
(***************************************************************************)
MaxFrags == 3       \* pieces of text in an initial hosts file with markers
MaxPlain == 2       \* pieces of text in an initial hosts file without markers
MaxDoms == 2        \* entries of a raw domain list
MaxCalls == 2       \* HostsManager calls in one behaviour
MaxPeriods == 1     \* the clock runs for this many timer delays
Res == 2            \* clock ticks per second
MaxBlank == 3       \* newlines outside the region before the window stops writing

(***************************************************************************)
(* Python string operations, on token sequences.                            *)
(***************************************************************************)
NL == "\n"
SP == " "
WWW == "www."

Contains(s, t) == \E i \in 1..Len(s) : s[i] = t

Find(s, t) ==
    IF Contains(s, t)
    THEN CHOOSE i \in 1..Len(s) : s[i] = t /\ \A j \in 1..(i - 1) : s[j] # t
    ELSE 0

\* s.split(t, 1)
Split1(s, t) ==
    LET i == Find(s, t)
    IN  IF i = 0 THEN <<s>>
        ELSE <<SubSeq(s, 1, i - 1), SubSeq(s, i + 1, Len(s))>>

IsSpace(t) == t \in {SP, NL}

RECURSIVE LStrip(_)
LStrip(s) == IF s # <<>> /\ IsSpace(s[1]) THEN LStrip(Tail(s)) ELSE s

RECURSIVE RStrip(_)
RStrip(s) ==
    IF s # <<>> /\ IsSpace(s[Len(s)]) THEN RStrip(SubSeq(s, 1, Len(s) - 1)) ELSE s

\* s.strip()
Strip(s) == LStrip(RStrip(s))

\* s.splitlines()
RECURSIVE SplitLines(_)
SplitLines(s) ==
    IF s = <<>> THEN <<>>
    ELSE LET i == Find(s, NL)
         IN  IF i = 0 THEN <<s>>
             ELSE <<SubSeq(s, 1, i - 1)>> \o SplitLines(SubSeq(s, i + 1, Len(s)))

EndsWith(s, suf) ==
    Len(suf) <= Len(s) /\ SubSeq(s, Len(s) - Len(suf) + 1, Len(s)) = suf

StartsWith(s, pre) == Len(pre) <= Len(s) /\ SubSeq(s, 1, Len(pre)) = pre

\* "\n".join(lines)
RECURSIVE JoinLines(_)
JoinLines(lines) ==
    IF lines = <<>> THEN <<>>
    ELSE IF Len(lines) = 1 THEN lines[1]
    ELSE lines[1] \o <<NL>> \o JoinLines(Tail(lines))

\* Code-point order of the first character of each token.
TokRank(t) ==
    CASE t = NL -> 0
      [] t = SP -> 1
      [] t = "a.com" -> 2
      [] t = "b.com" -> 3
      [] t = "exampleadult.com" -> 4
      [] t = WWW -> 5
      [] OTHER -> 6

\* s < t for Python strings
RECURSIVE StrLess(_, _)
StrLess(s, t) ==
    IF s = <<>> THEN t # <<>>
    ELSE IF t = <<>> THEN FALSE
    ELSE IF s[1] = t[1] THEN StrLess(Tail(s), Tail(t))
    ELSE TokRank(s[1]) < TokRank(t[1])

\* sorted(set_of_strings)
RECURSIVE Sorted(_)
Sorted(S) ==
    IF S = {} THEN <<>>
    ELSE LET m == CHOOSE x \in S : \A y \in S \ {x} : StrLess(x, y)
         IN  <<m>> \o Sorted(S \ {m})

(***************************************************************************)
(* hosts_manager.py                                                         *)
(***************************************************************************)
BLOCK_START == "# AdultBlocker START"
BLOCK_END == "# AdultBlocker END"
COMMENT1 == "# The following entries were added by AdultBlocker to intentionally block domains."
COMMENT2 == "# Remove this section to unblock (requires admin/root)."
IP4 == "127.0.0.1"
IP6 == "::1"

\* What the file system does to one call: nothing, or a failed read or write.
Fails == {"none", "read_perm", "read_io", "write_perm", "write_io"}

ReadError(fail) ==
    IF fail = "read_perm" THEN "PermissionError"
    ELSE IF fail = "read_io" THEN "OSError"
    ELSE "ok"

\* WriteError that reports every failed write as one generic error.
WriteError_generic(fail) ==
    IF fail \in {"write_perm", "write_io"} THEN "OSError" ELSE "ok"

WriteError(fail) ==
    IF fail = "write_perm" THEN "PermissionError"
    ELSE IF fail = "write_io" THEN "OSError"
    ELSE "ok"

\* ExpandOne that adds the "www." form of every domain, prefixed or not.
ExpandOne_always(raw) ==
    LET d == Strip(raw)
    IN  IF d = <<>> THEN {} ELSE {d, <<WWW>> \o d}

ExpandOne(raw) ==
    LET d == Strip(raw)
    IN  IF d = <<>> THEN {}
        ELSE IF StartsWith(d, <<WWW>>) THEN {d}
        ELSE {d, <<WWW>> \o d}

expand_domains(domains) ==
    Sorted(UNION {ExpandOne(domains[i]) : i \in 1..Len(domains)})

LineCovers(line, d) == EndsWith(Strip(line), <<SP>> \o d)

AllCovered(lines, expanded) ==
    \A k \in 1..Len(expanded) : \E l \in 1..Len(lines) : LineCovers(lines[l], expanded[k])

\* is_block_active that is content with one covered domain, where the code
\* asks for all of them.
is_block_active_any(content, domains) ==
    IF ~Contains(content, BLOCK_START) \/ ~Contains(content, BLOCK_END)
    THEN FALSE
    ELSE LET block_section == Split1(Split1(content, BLOCK_START)[2], BLOCK_END)[1]
             lines == SplitLines(block_section)
             expanded == expand_domains(domains)
         IN  \E k \in 1..Len(expanded) :
                 \E l \in 1..Len(lines) : LineCovers(lines[l], expanded[k])

\* The value is_block_active returns when the read succeeds.
is_block_active(content, domains) ==
    IF ~Contains(content, BLOCK_START) \/ ~Contains(content, BLOCK_END)
    THEN FALSE
    ELSE LET block_section == Split1(Split1(content, BLOCK_START)[2], BLOCK_END)[1]
         IN  AllCovered(SplitLines(block_section), expand_domains(domains))

\* EntryLines that forgets the IPv6 line of each domain.
RECURSIVE EntryLines_v4only(_)
EntryLines_v4only(expanded) ==
    IF expanded = <<>> THEN <<>>
    ELSE << <<IP4, SP>> \o expanded[1] >> \o EntryLines_v4only(Tail(expanded))

RECURSIVE EntryLines(_)
EntryLines(expanded) ==
    IF expanded = <<>> THEN <<>>
    ELSE << <<IP4, SP>> \o expanded[1], <<IP6, SP>> \o expanded[1] >>
         \o EntryLines(Tail(expanded))

BlockText(expanded) ==
    JoinLines(<< <<BLOCK_START>>, <<COMMENT1>>, <<COMMENT2>> >>
              \o EntryLines(expanded) \o << <<BLOCK_END>> >>) \o <<NL>>

\* before + after of the two splits; "ValueError" when the second split
\* yields one piece only (no end marker after the first start marker).
RemoveSection(content) ==
    LET p == Split1(content, BLOCK_START)
        q == Split1(p[2], BLOCK_END)
    IN  IF Len(q) = 2 THEN [out |-> "ok", text |-> p[1] \o q[2]]
        ELSE [out |-> "ValueError", text |-> content]

HasBothMarkers(content) ==
    Contains(content, BLOCK_START) /\ Contains(content, BLOCK_END)

WithNewline(content) ==
    IF content # <<>> /\ content[Len(content)] # NL THEN content \o <<NL>> ELSE content

\* apply_block that appends the new block without removing the old one.
apply_block_append(content, domains, fail) ==
    IF ReadError(fail) # "ok" THEN [out |-> ReadError(fail), hosts |-> content]
    ELSE IF WriteError(fail) # "ok" THEN [out |-> WriteError(fail), hosts |-> content]
    ELSE [out |-> "ok",
          hosts |-> WithNewline(content) \o BlockText(expand_domains(domains))]

apply_block(content, domains, fail) ==
    LET expanded == expand_domains(domains)
        cut == IF HasBothMarkers(content) THEN RemoveSection(content)
               ELSE [out |-> "ok", text |-> content]
        new_content == WithNewline(cut.text) \o BlockText(expanded)
    IN  IF ReadError(fail) # "ok" THEN [out |-> ReadError(fail), hosts |-> content]
        ELSE IF cut.out # "ok" THEN [out |-> cut.out, hosts |-> content]
        ELSE IF WriteError(fail) # "ok" THEN [out |-> WriteError(fail), hosts |-> content]
        ELSE [out |-> "ok", hosts |-> new_content]

\* remove_block that returns without writing the file.
remove_block_keep(content, fail) ==
    IF ReadError(fail) # "ok" THEN [out |-> ReadError(fail), hosts |-> content]
    ELSE [out |-> "ok", hosts |-> content]

remove_block(content, fail) ==
    LET cut == RemoveSection(content)
    IN  IF ReadError(fail) # "ok" THEN [out |-> ReadError(fail), hosts |-> content]
        ELSE IF ~HasBothMarkers(content) THEN [out |-> "ok", hosts |-> content]
        ELSE IF cut.out # "ok" THEN [out |-> cut.out, hosts |-> content]
        ELSE IF WriteError(fail) # "ok" THEN [out |-> WriteError(fail), hosts |-> content]
        ELSE [out |-> "ok", hosts |-> cut.text]

(***************************************************************************)
(* state_store.py: the persisted record.                                    *)
(***************************************************************************)
None == -1      \* Python's None in pending_uninstall_started_at
NotANumber == -2    \* a string in pending_uninstall_started_at

\* A number or null in blocked_domains: a value list() cannot iterate.
NotIterable == << <<"5">> >>

DEFAULT_DOMAINS == << <<"exampleadult.com">>, <<WWW, "exampleadult.com">> >>

\* The record __init__ writes when state.json does not exist and there is
\* no presets/adult_domains.txt.
FirstRunState ==
    [blocked_domains |-> DEFAULT_DOMAINS,
     pending_uninstall_started_at |-> None,
     onboarding_completed |-> FALSE]

\* The list set_domains keeps, were it to keep the expanded form.
Kept_expanded(domains) == expand_domains(domains)

Kept(domains) ==
    SelectSeq([i \in 1..Len(domains) |-> Strip(domains[i])], LAMBDA d : d # <<>>)

get_domains(st) == st.blocked_domains

\* set_domains that saves a dict without the timer it loaded.
set_domains_fresh(st, domains) ==
    [st EXCEPT !.blocked_domains = Kept(domains),
               !.pending_uninstall_started_at = None]

set_domains(st, domains) == [st EXCEPT !.blocked_domains = Kept(domains)]

start_uninstall_timer(st, t) == [st EXCEPT !.pending_uninstall_started_at = t]

\* cancel_uninstall_timer that saves the state as it loaded it.
cancel_uninstall_timer_noop(st) == st

cancel_uninstall_timer(st) == [st EXCEPT !.pending_uninstall_started_at = None]

\* isinstance(val, (int, float)) and float(val), else None
get_uninstall_started_at(st) ==
    LET val == st.pending_uninstall_started_at
    IN  IF val = NotANumber THEN None ELSE val

\* uninstall_ready that asks for more than the delay.
uninstall_ready_late(st, t, delay_seconds) ==
    LET started == get_uninstall_started_at(st)
    IN  IF started = None THEN FALSE ELSE (t - started) > delay_seconds * Res

\* t is time.time() in ticks, delay_seconds is in seconds.
uninstall_ready(st, t, delay_seconds) ==
    LET started == get_uninstall_started_at(st)
    IN  IF started = None THEN FALSE ELSE (t - started) >= delay_seconds * Res

is_onboarding_completed(st) == st.onboarding_completed

set_onboarding_completed(st, completed) ==
    [st EXCEPT !.onboarding_completed = completed]

(***************************************************************************)
(* state_store.py: the state file on disk.                                  *)
(*                                                                          *)
(* The text of a file is the sequence of its tokens (the braces and the     *)
(* keys of the JSON object) together with the values the keys carry.  A     *)
(* write that is cut short leaves a prefix of the tokens.                   *)
(***************************************************************************)
KEYS == <<"blocked_domains", "pending_uninstall_started_at", "onboarding_completed">>

EmptyText == [toks |-> <<>>, val |-> FirstRunState]

\* json.dumps(data, indent=2)
dumps(data) == [toks |-> <<"{">> \o KEYS \o <<"}">>, val |-> data]

\* The first n tokens of a text.
Prefix(text, n) ==
    IF n = 0 THEN EmptyText ELSE [toks |-> SubSeq(text.toks, 1, n), val |-> text.val]

NoFile == [exists |-> FALSE, text |-> EmptyText]

Written(text) == [exists |-> TRUE, text |-> text]

\* json.loads(raw): a dict with the keys of the text, a value that is not a
\* dict, or JSONDecodeError.
loads(text) ==
    LET t == text.toks
        n == Len(t)
    IN  IF n >= 2 /\ t[1] = "{" /\ t[n] = "}"
           /\ \A i \in 2..(n - 1) : \E k \in 1..Len(KEYS) : t[i] = KEYS[k]
        THEN [out |-> "dict", keys |-> {t[i] : i \in 2..(n - 1)}]
        ELSE IF t = <<"[]">> THEN [out |-> "list", keys |-> {}]
        ELSE [out |-> "JSONDecodeError", keys |-> {}]

\* The record load writes and returns when its try block raised.
ResetState ==
    [blocked_domains |-> DEFAULT_DOMAINS,
     pending_uninstall_started_at |-> None,
     onboarding_completed |-> FALSE]

\* What the file system does to one step of the store: nothing, a failed
\* read of state.json, a failed write of state.tmp.
StoreFails == {"none", "read", "write"}

\* The try block of load: the dict it returns, or "except".
TryLoad(f, fail) ==
    LET p == loads(f.text)
        v == f.text.val
    IN  IF fail = "read" \/ ~f.exists \/ p.out # "dict"
        THEN [out |-> "except", data |-> ResetState]
        ELSE [out |-> "ok",
              data |-> [blocked_domains |->
                            IF KEYS[1] \in p.keys THEN v.blocked_domains
                            ELSE DEFAULT_DOMAINS,
                        pending_uninstall_started_at |->
                            IF KEYS[2] \in p.keys THEN v.pending_uninstall_started_at
                            ELSE None,
                        onboarding_completed |->
                            IF KEYS[3] \in p.keys THEN v.onboarding_completed
                            ELSE FALSE]]

\* tmp.write_text that writes state.json in place.
write_text_inplace(d, text) == [json |-> Written(text), tmp |-> Written(text)]

\* tmp.write_text(...): state.tmp holds `text` so far.
write_text(d, text) == [d EXCEPT !.tmp = Written(text)]

\* tmp.replace(self.state_path)
replace(d) == [json |-> d.tmp, tmp |-> NoFile]

\* The mutating helpers of the store, as calls.
NoOp == [name |-> "none", dom |-> <<>>, flag |-> FALSE]

\* The dict a helper passes to save, from the dict load gave it.
Mutate(st, op, t) ==
    CASE op.name = "set_domains" -> set_domains(st, op.dom)
      [] op.name = "start_uninstall_timer" -> start_uninstall_timer(st, t)
      [] op.name = "cancel_uninstall_timer" -> cancel_uninstall_timer(st)
      [] op.name = "set_onboarding_completed" -> set_onboarding_completed(st, op.flag)
      [] OTHER -> st

\* pc: "down" (no process), "idle" (between calls), and inside
\* _write_state "open" (before state.tmp is opened), "writing" (state.tmp is
\* open), "replace" (state.tmp is closed, before the rename).  call: what
\* the write is for ("init", "save", "reset").  op: the helper that is
\* running.  data: the dict being written.  old: the dict the helper
\* loaded.  crashed: the process died inside a save and no save began since.
NoProcess ==
    [pc |-> "down", call |-> "none", op |-> NoOp, data |-> FirstRunState,
     old |-> FirstRunState, crashed |-> FALSE]

NoRet == [out |-> "none", val |-> FirstRunState]

(***************************************************************************)
(* History records.                                                         *)
(***************************************************************************)
NoCall == [op |-> "none", dom |-> <<>>, out |-> "none", pre |-> <<>>, same |-> FALSE]
NoPrev == [op |-> "none", out |-> "none"]
NoView == [status |-> "none", start |-> FALSE, cancel |-> FALSE,
           proceed |-> FALSE, edit |-> FALSE, uninstall |-> FALSE]
NoEvt == [kind |-> "none", onb |-> FALSE, ready |-> FALSE, out |-> "none",
          changed |-> FALSE, cleared |-> FALSE, kept |-> FALSE]
NoTimerEvt == [ev |-> "none", at |-> 0, ready |-> "unasked"]
NoApply == [timer |-> "none", out |-> "none", same |-> FALSE]
NoInstall == [out |-> "none", done |-> FALSE, persisted |-> FALSE,
              active |-> FALSE, kept |-> FALSE]
NoExpand == [raw |-> <<>>, out |-> <<>>, done |-> FALSE]

(***************************************************************************)
(* The hosts file on its own: HostsManager called with every domain list,   *)
(* from a hosts file that some other program or the user wrote.             *)
(***************************************************************************)
RawDomains == { <<"a.com">>, <<SP, WWW, "b.com", SP>> }

RECURSIVE ListsUpTo(_, _)
ListsUpTo(S, n) ==
    IF n = 0 THEN {<<>>}
    ELSE LET T == ListsUpTo(S, n - 1)
         IN  T \cup {Append(t, x) : t \in T, x \in S}

DomainLists == ListsUpTo(RawDomains, MaxDoms)

\* What the user may leave in the edit dialog or tick in the onboarding list.
EditLists == {<<>>} \cup {<<d>> : d \in RawDomains}

\* Pieces of text another writer of the hosts file may have left there.
PlainFrags == { <<NL>>, <<"x">> }
UserFrags == PlainFrags \cup { <<IP4, SP, WWW, "b.com">> }
MarkerFrags == { <<BLOCK_START>>, <<BLOCK_END>> }

RECURSIVE Texts(_, _)
Texts(F, n) ==
    IF n = 0 THEN {<<>>}
    ELSE LET T == Texts(F, n - 1)
         IN  T \cup {t \o f : t \in T, f \in F}

InitRest ==
    /\ last = NoCall
    /\ prev = NoPrev
    /\ ncalls = 0
    /\ store = FirstRunState
    /\ now = 0
    /\ pc = "off"
    /\ ui = NoView
    /\ evt = NoEvt
    /\ tlog = NoTimerEvt
    /\ sp = NoProcess
    /\ ret = NoRet
    /\ aev = NoApply
    /\ ins = NoInstall
    /\ off = "no"
    /\ xp = NoExpand

\* state.json as __init__ left it on the first run.
InitOther ==
    /\ InitRest
    /\ disk = [json |-> Written(dumps(FirstRunState)), tmp |-> NoFile]

\* A hosts file that never held a marker.
InitHosts ==
    /\ hosts \in Texts(PlainFrags, MaxPlain)
    /\ hosts0 = hosts
    /\ InitOther

\* Any hosts file, markers included.
InitHostsAny ==
    /\ hosts \in Texts(UserFrags \cup MarkerFrags, MaxFrags)
    /\ hosts0 = hosts
    /\ InitOther

Called(op, dom, out) ==
    /\ last' = [op |-> op, dom |-> dom, out |-> out, pre |-> hosts,
                same |-> (last.op = op /\ last.dom = dom)]
    /\ prev' = [op |-> last.op, out |-> last.out]
    /\ ncalls' = ncalls + 1

CallApply(D, fail) ==
    /\ ncalls < MaxCalls
    /\ LET r == apply_block(hosts, D, fail)
       IN  /\ hosts' = r.hosts
           /\ Called("apply_block", D, r.out)
    /\ UNCHANGED <<hosts0, store, now, pc, ui, evt, tlog, disk, sp, ret, aev, ins, off, xp>>

CallRemove(fail) ==
    /\ ncalls < MaxCalls
    /\ LET r == remove_block(hosts, fail)
       IN  /\ hosts' = r.hosts
           /\ Called("remove_block", <<>>, r.out)
    /\ UNCHANGED <<hosts0, store, now, pc, ui, evt, tlog, disk, sp, ret, aev, ins, off, xp>>

CallIsActive(D, fail) ==
    /\ ncalls < MaxCalls
    /\ fail \in {"none", "read_perm", "read_io"}
    /\ Called("is_block_active", D,
              IF ReadError(fail) # "ok" THEN ReadError(fail)
              ELSE IF is_block_active(hosts, D) THEN "True" ELSE "False")
    /\ UNCHANGED <<hosts, hosts0, store, now, pc, ui, evt, tlog, disk, sp, ret, aev, ins, off, xp>>

NextHosts ==
    \/ \E D \in DomainLists, fail \in Fails : CallApply(D, fail)
    \/ \E fail \in Fails : CallRemove(fail)
    \/ \E D \in DomainLists, fail \in Fails : CallIsActive(D, fail)

SpecHosts == InitHosts /\ [][NextHosts]_vars
SpecHostsAny == InitHostsAny /\ [][NextHosts]_vars

\* The set of domains expand yields for a raw list.
ExpandOneAll(domains) == UNION {ExpandOne(domains[i]) : i \in 1..Len(domains)}

(***************************************************************************)
(* Properties of the hosts-file editor.                                     *)
(***************************************************************************)
CountTok(s, t) == Cardinality({i \in 1..Len(s) : s[i] = t})

\* Position of the first end marker after position i, 0 when there is none.
EndAfter(c, i) ==
    IF \E j \in (i + 1)..Len(c) : c[j] = BLOCK_END
    THEN CHOOSE j \in (i + 1)..Len(c) :
             c[j] = BLOCK_END /\ \A k \in (i + 1)..(j - 1) : c[k] # BLOCK_END
    ELSE 0

\* The file has a region: a start marker and an end marker after it.
HasRegion(c) == Contains(c, BLOCK_START) /\ EndAfter(c, Find(c, BLOCK_START)) # 0

TwoApplies ==
    /\ last.op = "apply_block" /\ last.out = "ok"
    /\ prev.op = "apply_block" /\ prev.out = "ok"

\* C5: apply_block(D) after apply_block(D) leaves the file as the first call
\* left it, with one start marker and one end marker.
C5_ApplyIdempotent ==
    (TwoApplies /\ last.same) =>
        /\ hosts = last.pre
        /\ CountTok(hosts, BLOCK_START) = 1
        /\ CountTok(hosts, BLOCK_END) = 1

\* C6: apply_block(D) then remove_block() on a marker-free file gives the
\* file back byte for byte.
C6_RoundTrip ==
    (/\ ncalls = 2
     /\ prev.op = "apply_block" /\ prev.out = "ok"
     /\ last.op = "remove_block" /\ last.out = "ok") => hosts = hosts0

\* The text of c outside its region (all of c when it has no region).
Outside(c) ==
    IF HasRegion(c)
    THEN LET i == Find(c, BLOCK_START)
         IN  SubSeq(c, 1, i - 1) \o SubSeq(c, EndAfter(c, i) + 1, Len(c))
    ELSE c

\* C7: text that was outside the region of the initial file is never
\* deleted: every piece "x" of it is still in the file.
C7_OutsideKept == CountTok(Outside(hosts0), "x") <= CountTok(hosts, "x")

\* C8: from a marker-free file, at most one start and one end marker, both
\* or neither, start first.
C8_OneRegion ==
    /\ CountTok(hosts, BLOCK_START) <= 1
    /\ CountTok(hosts, BLOCK_END) = CountTok(hosts, BLOCK_START)
    /\ Contains(hosts, BLOCK_START) => Find(hosts, BLOCK_START) < Find(hosts, BLOCK_END)

C8_Witness == TwoApplies /\ CountTok(hosts, BLOCK_START) = 1

ExpectedRegion(D) ==
    LET e == expand_domains(D)
    IN  << <<BLOCK_START>>, <<COMMENT1>>, <<COMMENT2>> >>
        \o [k \in 1..(2 * Len(e)) |->
               IF k % 2 = 1 THEN <<IP4, SP>> \o e[(k + 1) \div 2]
               ELSE <<IP6, SP>> \o e[k \div 2]]
        \o << <<BLOCK_END>> >>

\* C9: after a successful apply_block(D) the region is the start marker
\* line, the two comment lines, the two lines of each domain of expand(D) in
\* sorted order, and the end marker line, each a line of its own.
C9_RegionExact ==
    (last.op = "apply_block" /\ last.out = "ok") =>
        LET i == Find(hosts, BLOCK_START)
            j == EndAfter(hosts, i)
            e == expand_domains(last.dom)
        IN  /\ i # 0 /\ j # 0
            /\ i = 1 \/ hosts[i - 1] = NL
            /\ j < Len(hosts) /\ hosts[j + 1] = NL
            /\ SplitLines(SubSeq(hosts, i, j)) = ExpectedRegion(last.dom)
            /\ \A k \in 1..(Len(e) - 1) : StrLess(e[k], e[k + 1])

\* A second apply whose list drops a.com, which the first one had blocked.
C9_Witness ==
    /\ TwoApplies
    /\ Contains(last.pre, "a.com")
    /\ ~Contains(hosts, "a.com")
    /\ Contains(hosts, IP6)

\* The lines strictly between the first start marker and the end marker
\* that follows it; none when no end marker follows.
LinesBetween(c) ==
    LET i == Find(c, BLOCK_START)
        j == EndAfter(c, i)
    IN  IF i = 0 \/ j = 0 THEN <<>> ELSE SplitLines(SubSeq(c, i + 1, j - 1))

\* C10: is_block_active(D) is true exactly when both markers are present
\* and every domain of expand(D) ends some line between the first start
\* marker and the end marker that follows it.
C10_ActiveIffCovered ==
    (last.op = "is_block_active" /\ last.out \in {"True", "False"}) =>
        ((last.out = "True") <=>
            /\ HasBothMarkers(hosts)
            /\ \A d \in ExpandOneAll(last.dom) :
                   \E l \in 1..Len(LinesBetween(hosts)) :
                       LET line == Strip(LinesBetween(hosts)[l])
                       IN  /\ Len(line) > Len(d)
                           /\ SubSeq(line, Len(line) - Len(d) + 1, Len(line)) = d
                           /\ line[Len(line) - Len(d)] = SP)

(***************************************************************************)
(* The clock.  time.time() is a float; the model keeps Res ticks a second   *)
(* and only the clock values next to a multiple of the delay, which is      *)
(* where the guard changes its answer: one second and one tick before it,   *)
(* the multiple itself, one tick after it.                                  *)
(***************************************************************************)
UNINSTALL_DELAY_SECONDS == 900

DelayTicks == UNINSTALL_DELAY_SECONDS * Res

ClockValues ==
    {t \in 0..(MaxPeriods * DelayTicks + 1) :
        t % DelayTicks \in {0, 1, DelayTicks - Res, DelayTicks - 1}}

(***************************************************************************)
(* The store's timer on its own.                                            *)
(***************************************************************************)
InitTimer ==
    /\ hosts = <<>>
    /\ hosts0 = <<>>
    /\ InitOther

TimerFrame == UNCHANGED <<hosts, hosts0, last, prev, ncalls, pc, ui, evt, disk, sp, ret, aev, ins, off, xp>>

Tick ==
    /\ \E t \in ClockValues : t > now /\ now' = t
    /\ tlog' = [tlog EXCEPT !.ready = "unasked"]
    /\ UNCHANGED store
    /\ TimerFrame

CallStartTimer ==
    /\ store' = start_uninstall_timer(store, now)
    /\ tlog' = [ev |-> "start", at |-> now, ready |-> "unasked"]
    /\ UNCHANGED now
    /\ TimerFrame

CallCancelTimer ==
    /\ store' = cancel_uninstall_timer(store)
    /\ tlog' = [ev |-> "cancel", at |-> now, ready |-> "unasked"]
    /\ UNCHANGED now
    /\ TimerFrame

CallUninstallReady ==
    /\ tlog' = [tlog EXCEPT !.ready =
                   IF uninstall_ready(store, now, UNINSTALL_DELAY_SECONDS)
                   THEN "True" ELSE "False"]
    /\ UNCHANGED <<store, now>>
    /\ TimerFrame

CallSetOnboardingCompleted(completed) ==
    /\ store' = set_onboarding_completed(store, completed)
    /\ tlog' = [tlog EXCEPT !.ready = "unasked"]
    /\ UNCHANGED now
    /\ TimerFrame

CallSetDomains(D) ==
    /\ store' = set_domains(store, D)
    /\ tlog' = [tlog EXCEPT !.ready = "unasked"]
    /\ UNCHANGED now
    /\ TimerFrame

NextTimer ==
    \/ Tick
    \/ CallStartTimer
    \/ CallCancelTimer
    \/ CallUninstallReady
    \/ \E completed \in BOOLEAN : CallSetOnboardingCompleted(completed)
    \/ \E D \in EditLists : CallSetDomains(D)

SpecTimer == InitTimer /\ [][NextTimer]_vars

\* C2: uninstall_ready(900) is false before any start, false from the start
\* up to 899 seconds later, true from 900 seconds on, false after a cancel.
C2_TimerGating ==
    tlog.ready # "unasked" =>
        /\ tlog.ev = "none" => tlog.ready = "False"
        /\ (tlog.ev = "start" /\ now - tlog.at <= 899 * Res) => tlog.ready = "False"
        /\ (tlog.ev = "start" /\ now - tlog.at >= 900 * Res) => tlog.ready = "True"
        /\ tlog.ev = "cancel" => tlog.ready = "False"

C2_Witness ==
    tlog.ev = "start" /\ now - tlog.at = 900 * Res /\ tlog.ready = "True"

(***************************************************************************)
(* The state file on its own: the process that owns the store is           *)
(* constructed, calls the helpers of the store, and may die at any point,  *)
(* also between two steps of _write_state.                                  *)
(***************************************************************************)
\* The lists set_domains is called with: what the dialogs give, and a list
\* out of order with a padded and a blank entry.
StoreLists == EditLists \cup { << <<SP, WWW, "b.com", SP>>, <<SP>>, <<"a.com">> >> }

StoreOps ==
    {[name |-> "set_domains", dom |-> D, flag |-> FALSE] : D \in StoreLists}
    \cup {[name |-> n, dom |-> <<>>, flag |-> FALSE] :
            n \in {"start_uninstall_timer", "cancel_uninstall_timer"}}
    \cup {[name |-> "set_onboarding_completed", dom |-> <<>>, flag |-> b] :
            b \in BOOLEAN}

\* No state.json yet: the first run.
InitStore ==
    /\ hosts = <<>>
    /\ hosts0 = <<>>
    /\ InitRest
    /\ disk = [json |-> NoFile, tmp |-> NoFile]

\* A record some earlier run saved.
SavedState ==
    [blocked_domains |-> << <<"a.com">> >>,
     pending_uninstall_started_at |-> 0,
     onboarding_completed |-> TRUE]

\* state.json as anything may have left it: complete, cut short, empty,
\* JSON that is not an object, an object that lacks keys, an object with a
\* value of the wrong type under a key, or missing.
StateFiles ==
    {NoFile, Written([toks |-> <<"[]">>, val |-> FirstRunState])}
    \cup {Written(dumps([SavedState EXCEPT !.blocked_domains = NotIterable])),
          Written(dumps([SavedState EXCEPT !.pending_uninstall_started_at = NotANumber]))}
    \cup {Written(Prefix(dumps(SavedState), n)) : n \in 0..Len(KEYS) + 2}
    \cup {Written([toks |-> <<"{", KEYS[k], "}">>, val |-> SavedState]) :
            k \in 1..Len(KEYS)}

InitStoreAny ==
    /\ hosts = <<>>
    /\ hosts0 = <<>>
    /\ last = NoCall
    /\ prev = NoPrev
    /\ ncalls = 0
    /\ now = 0
    /\ pc = "off"
    /\ ui = NoView
    /\ evt = NoEvt
    /\ tlog = NoTimerEvt
    /\ sp = NoProcess
    /\ ret = NoRet
    /\ aev = NoApply
    /\ ins = NoInstall
    /\ off = "no"
    /\ xp = NoExpand
    /\ disk \in {[json |-> f, tmp |-> NoFile] : f \in StateFiles}
    /\ store = TryLoad(disk.json, "none").data

StoreFrame ==
    UNCHANGED <<hosts, hosts0, last, prev, ncalls, now, pc, ui, evt, tlog, aev, ins, off,
                xp>>

\* StateStore.__init__
Construct ==
    /\ sp.pc = "down"
    /\ IF disk.json.exists
       THEN sp' = [sp EXCEPT !.pc = "idle"]
       ELSE sp' = [pc |-> "open", call |-> "init", op |-> NoOp,
                   data |-> FirstRunState, old |-> FirstRunState,
                   crashed |-> FALSE]
    /\ ret' = NoRet
    /\ UNCHANGED <<disk, store>>
    /\ StoreFrame

\* load(), as get_domains, get_uninstall_started_at and
\* is_onboarding_completed call it.
Load(fail) ==
    /\ sp.pc = "idle"
    /\ fail \in {"none", "read"}
    /\ LET r == TryLoad(disk.json, fail)
       IN  IF r.out = "ok"
           THEN /\ ret' = [out |-> "ok", val |-> r.data]
                /\ UNCHANGED sp
           ELSE /\ ret' = NoRet
                /\ sp' = [sp EXCEPT !.pc = "open", !.call = "reset",
                                    !.op = NoOp, !.data = r.data]
    /\ UNCHANGED <<disk, store>>
    /\ StoreFrame

\* get_domains: load(), then list() of what is under blocked_domains.
GetDomains(fail) ==
    /\ sp.pc = "idle"
    /\ fail \in {"none", "read"}
    /\ LET r == TryLoad(disk.json, fail)
       IN  IF r.out = "ok"
           THEN /\ ret' = [out |-> IF r.data.blocked_domains = NotIterable
                                   THEN "TypeError" ELSE "ok",
                           val |-> r.data]
                /\ UNCHANGED sp
           ELSE /\ ret' = NoRet
                /\ sp' = [sp EXCEPT !.pc = "open", !.call = "reset",
                                    !.op = NoOp, !.data = r.data]
    /\ UNCHANGED <<disk, store>>
    /\ StoreFrame

\* set_domains, start_uninstall_timer, cancel_uninstall_timer,
\* set_onboarding_completed: load(), change one key, save().
Call(op, fail) ==
    /\ sp.pc = "idle"
    /\ fail \in {"none", "read"}
    /\ LET r == TryLoad(disk.json, fail)
       IN  IF r.out = "ok"
           THEN sp' = [pc |-> "open", call |-> "save", op |-> op,
                       data |-> Mutate(r.data, op, now), old |-> r.data,
                       crashed |-> FALSE]
           ELSE sp' = [sp EXCEPT !.pc = "open", !.call = "reset",
                                 !.op = op, !.data = r.data]
    /\ ret' = NoRet
    /\ UNCHANGED <<disk, store>>
    /\ StoreFrame

\* _write_state: open(state.tmp, "w").  When it fails the exception leaves
\* _write_state: out of __init__ (the process ends), out of save, or out of
\* the except block of load.
OpenTmp(fail) ==
    /\ sp.pc = "open"
    /\ fail \in {"none", "write"}
    /\ IF fail = "write"
       THEN /\ sp' = [sp EXCEPT !.pc = IF sp.call = "init" THEN "down" ELSE "idle"]
            /\ ret' = IF sp.call = "reset"
                      THEN [out |-> "error", val |-> sp.data]
                      ELSE NoRet
            /\ UNCHANGED disk
       ELSE /\ disk' = write_text(disk, Prefix(dumps(sp.data), 0))
            /\ sp' = [sp EXCEPT !.pc = "writing"]
            /\ ret' = NoRet
    /\ UNCHANGED store
    /\ StoreFrame

\* _write_state: the next piece of the text reaches state.tmp; the file is
\* closed after the last one.
WriteTok ==
    /\ sp.pc = "writing"
    /\ LET full == dumps(sp.data)
           n == Len(disk.tmp.text.toks) + 1
       IN  /\ disk' = write_text(disk, Prefix(full, n))
           /\ sp' = [sp EXCEPT !.pc = IF n = Len(full.toks) THEN "replace"
                                       ELSE "writing"]
    /\ ret' = NoRet
    /\ UNCHANGED store
    /\ StoreFrame

\* _write_state: tmp.replace(state_path), and what follows the write:
\* __init__ and save return, load returns the reset dict to its caller, and
\* a helper goes on to save the dict load gave it.
Replace ==
    /\ sp.pc = "replace"
    /\ disk' = replace(disk)
    /\ store' = sp.data
    /\ IF sp.call = "reset" /\ sp.op = NoOp
       THEN /\ sp' = [sp EXCEPT !.pc = "idle"]
            /\ ret' = [out |-> "reset", val |-> sp.data]
       ELSE IF sp.call = "reset"
       THEN /\ sp' = [sp EXCEPT !.pc = "open", !.call = "save",
                                !.data = Mutate(sp.data, sp.op, now),
                                !.old = sp.data]
            /\ ret' = NoRet
       ELSE /\ sp' = [sp EXCEPT !.pc = "idle"]
            /\ ret' = NoRet
    /\ StoreFrame

\* The process dies (killed, power loss, uncaught exception elsewhere).
Crash ==
    /\ sp.pc # "down"
    /\ sp' = [sp EXCEPT !.pc = "down",
                        !.crashed = @ \/ (sp.call = "save" /\ sp.pc # "idle")]
    /\ ret' = NoRet
    /\ UNCHANGED <<disk, store>>
    /\ StoreFrame

NextStore ==
    \/ Construct
    \/ Load("none")
    \/ \E op \in StoreOps : Call(op, "none")
    \/ OpenTmp("none")
    \/ WriteTok
    \/ Replace
    \/ Crash

NextStoreAny ==
    \/ Construct
    \/ \E fail \in StoreFails : Load(fail)
    \/ \E fail \in StoreFails : GetDomains(fail)
    \/ \E op \in StoreOps, fail \in StoreFails : Call(op, fail)
    \/ \E fail \in StoreFails : OpenTmp(fail)
    \/ WriteTok
    \/ Replace
    \/ Crash

SpecStore == InitStore /\ [][NextStore]_vars
SpecStoreAny == InitStoreAny /\ [][NextStoreAny]_vars

\* C11: after the process died inside a save, load() gives the complete
\* dict the save had loaded or the complete dict it was writing, and does
\* not reset the file to the defaults.
C11_AtomicSave ==
    (sp.crashed /\ ret.out # "none") =>
        (ret.out = "ok" /\ ret.val \in {sp.old, sp.data})

\* The process died while state.tmp was half written, and the next load()
\* gave the dict from before the save.
C11_Witness ==
    /\ sp.crashed
    /\ ret.out = "ok" /\ ret.val = sp.old /\ sp.old # sp.data
    /\ disk.tmp.exists
    /\ Len(disk.tmp.text.toks) \in 1..(Len(KEYS) + 1)

\* C12: load() never raises; when state.json cannot be read or parsed it
\* returns the default dict and state.json holds that dict.
C12_LoadNeverRaises ==
    /\ ret.out # "error"
    /\ ret.out = "reset" =>
           (ret.val = ResetState /\ disk.json = Written(dumps(ResetState)))

(***************************************************************************)
(* ui.py, main.py, onboarding.py, startup.py: the process and its window.   *)
(*                                                                          *)
(* pc is "off" (no process), "onboarding" (OnboardingDialog.exec), "idle"   *)
(* (the event loop of the main window), or the modal dialog a handler of    *)
(* the main window is waiting in: "ask_start" (the question of              *)
(* _require_timer_ready), "confirm_uninstall" (the question of              *)
(* _uninstall_app), "edit_dialog" (EditDomainsDialog.exec).  While a modal  *)
(* dialog is open the buttons of the window are blocked, but the tray menu  *)
(* and the QTimer are served by the dialog's event loop.  Message boxes     *)
(* that only inform are not modelled: nothing but _update_status follows    *)
(* them.                                                                    *)
(***************************************************************************)
WindowPcs == {"idle", "ask_start", "confirm_uninstall", "edit_dialog"}

\* int(max(0, UNINSTALL_DELAY_SECONDS - (now - started)))
Remaining(t, started) ==
    LET left == DelayTicks - (t - started)
    IN  IF left <= 0 THEN 0 ELSE left \div Res

update_status(st, t) ==
    LET started == get_uninstall_started_at(st)
    IN  IF started = None
        THEN [status |-> "Blocking is ON", start |-> TRUE, cancel |-> FALSE,
              proceed |-> FALSE, edit |-> FALSE, uninstall |-> FALSE]
        ELSE IF Remaining(t, started) > 0
        THEN [status |-> "Turn-off timer running", start |-> FALSE, cancel |-> TRUE,
              proceed |-> FALSE, edit |-> FALSE, uninstall |-> FALSE]
        ELSE [status |-> "Timer done", start |-> FALSE, cancel |-> TRUE,
              proceed |-> TRUE, edit |-> TRUE, uninstall |-> TRUE]

Ready == uninstall_ready(store, now, UNINSTALL_DELAY_SECONDS)

\* Newlines pile up outside the region with every rewrite; the window stops
\* rewriting the file when MaxBlank of them are there.
CanWrite == CountTok(Outside(hosts), NL) <= MaxBlank

OtherFrame == UNCHANGED <<hosts0, last, prev, ncalls, tlog, disk, sp, ret, xp>>

\* A step that is neither "Apply blocks" nor "Install" nor a turn-off nor a
\* launch: the histories of those forget what is older than one step.
Settled(o) == IF o = "relaunched" THEN "no" ELSE o

ApplyFrame == OtherFrame /\ aev' = NoApply

HistFrame == ApplyFrame /\ ins' = NoInstall /\ off' = Settled(off)

\* The state of the timer-gated access controller.
TimerState(st, t) ==
    IF get_uninstall_started_at(st) = None THEN "Locked"
    ELSE IF uninstall_ready(st, t, UNINSTALL_DELAY_SECONDS) THEN "Ready"
    ELSE "Running"

\* Startup.ensure_consistency: what happened inside it ("active": the block
\* was active and nothing was written; "applied": apply_block returned; or
\* the exception it swallowed) and the hosts file it leaves.
ensure_consistency_run(st, content, fail1, fail2) ==
    IF ReadError(fail1) # "ok" THEN [out |-> ReadError(fail1), hosts |-> content]
    ELSE IF is_block_active(content, get_domains(st))
    THEN [out |-> "active", hosts |-> content]
    ELSE LET r == apply_block(content, get_domains(st), fail2)
         IN  [out |-> IF r.out = "ok" THEN "applied" ELSE r.out, hosts |-> r.hosts]

\* Startup.ensure_consistency: the hosts file it leaves.
ensure_consistency(st, content, fail1, fail2) ==
    ensure_consistency_run(st, content, fail1, fail2).hosts

InitUI ==
    /\ hosts = <<"x">>
    /\ hosts0 = hosts
    /\ InitOther

\* main(): the store exists, the consistency check runs, the onboarding
\* dialog opens on a first run, otherwise the window.
Launch(fail1, fail2) ==
    /\ pc = "off"
    /\ CanWrite
    /\ hosts' = ensure_consistency(store, hosts, fail1, fail2)
    /\ IF is_onboarding_completed(store)
       THEN pc' = "idle" /\ ui' = update_status(store, now)
       ELSE pc' = "onboarding" /\ ui' = NoView
    /\ evt' = NoEvt
    /\ off' = IF off = "off" /\ HasRegion(hosts') THEN "relaunched" ELSE Settled(off)
    /\ ins' = NoInstall
    /\ UNCHANGED <<store, now>>
    /\ ApplyFrame

\* _install that marks onboarding complete whatever apply_block raised.
OnbInstall_anyerror(D, fail) ==
    /\ pc = "onboarding"
    /\ CanWrite
    /\ Kept(D) # <<>>
    /\ LET domains == Kept(D)
           st1 == set_domains(store, domains)
           r == apply_block(hosts, domains, fail)
       IN  /\ hosts' = r.hosts
           /\ IF r.out \in {"ok", "PermissionError", "OSError"}
              THEN /\ store' = set_onboarding_completed(st1, TRUE)
                   /\ pc' = "idle"
                   /\ ui' = update_status(store', now)
              ELSE /\ store' = st1
                   /\ UNCHANGED <<pc, ui>>
           /\ ins' = [out |-> r.out,
                      done |-> is_onboarding_completed(store'),
                      persisted |-> get_domains(store') = domains,
                      active |-> is_block_active(hosts', domains),
                      kept |-> hosts' = hosts]
    /\ evt' = NoEvt
    /\ off' = "no"
    /\ UNCHANGED now
    /\ ApplyFrame

\* OnboardingDialog._install with a non-empty selection.
OnbInstall(D, fail) ==
    /\ pc = "onboarding"
    /\ CanWrite
    /\ Kept(D) # <<>>
    /\ LET domains == Kept(D)
           st1 == set_domains(store, domains)
           r == apply_block(hosts, domains, fail)
       IN  /\ hosts' = r.hosts
           /\ IF r.out \in {"ok", "PermissionError"}
              THEN /\ store' = set_onboarding_completed(st1, TRUE)
                   /\ pc' = "idle"
                   /\ ui' = update_status(store', now)
              ELSE /\ store' = st1
                   /\ UNCHANGED <<pc, ui>>
           /\ ins' = [out |-> r.out,
                      done |-> is_onboarding_completed(store'),
                      persisted |-> get_domains(store') = domains,
                      active |-> is_block_active(hosts', domains),
                      kept |-> hosts' = hosts]
    /\ evt' = NoEvt
    /\ off' = "no"
    /\ UNCHANGED now
    /\ ApplyFrame

\* The onboarding dialog is closed without installing; main() goes on.
OnbClose ==
    /\ pc = "onboarding"
    /\ pc' = "idle"
    /\ ui' = update_status(store, now)
    /\ evt' = NoEvt
    /\ UNCHANGED <<hosts, store, now>>
    /\ HistFrame

\* Tray "Quit", or the last window is closed.
Quit ==
    /\ pc = "idle"
    /\ pc' = "off"
    /\ ui' = NoView
    /\ evt' = NoEvt
    /\ UNCHANGED <<hosts, store, now>>
    /\ HistFrame

ClockTick ==
    /\ \E t \in ClockValues : t > now /\ now' = t
    /\ evt' = NoEvt
    /\ UNCHANGED <<hosts, store, pc, ui>>
    /\ HistFrame

\* QTimer.timeout -> _update_status
TimerTimeout ==
    /\ pc \in WindowPcs
    /\ ui' = update_status(store, now)
    /\ evt' = NoEvt
    /\ UNCHANGED <<hosts, store, now, pc>>
    /\ HistFrame

start_uninstall ==
    /\ store' = start_uninstall_timer(store, now)
    /\ ui' = update_status(store', now)
    /\ evt' = NoEvt
    /\ UNCHANGED <<hosts, now, pc>>
    /\ HistFrame

cancel_uninstall ==
    /\ store' = cancel_uninstall_timer(store)
    /\ ui' = update_status(store', now)
    /\ evt' = NoEvt
    /\ UNCHANGED <<hosts, now, pc>>
    /\ HistFrame

ClickStart == pc = "idle" /\ ui.start /\ start_uninstall
TrayStart == pc \in WindowPcs /\ start_uninstall
ClickCancel == pc = "idle" /\ ui.cancel /\ cancel_uninstall
TrayCancel == pc \in WindowPcs /\ cancel_uninstall

\* What a sensitive operation found and left: was the timer Ready when it
\* ran, how it ended, did it change the hosts file or the domain list, is
\* the timer cleared, is the timer as it was.
Sensitive(kind, out) ==
    evt' = [kind |-> kind, onb |-> is_onboarding_completed(store), ready |-> Ready,
            out |-> out,
            changed |-> (hosts' # hosts \/ get_domains(store') # get_domains(store)),
            cleared |-> get_uninstall_started_at(store') = None,
            kept |-> get_uninstall_started_at(store') = get_uninstall_started_at(store)]

\* _proceed_uninstall that clears the timer whether or not the removal worked.
proceed_uninstall_finally(fail) ==
    /\ CanWrite
    /\ IF ~Ready
       THEN /\ evt' = NoEvt
            /\ off' = Settled(off)
            /\ UNCHANGED <<hosts, store, ui>>
       ELSE LET r == remove_block(hosts, fail)
            IN  /\ hosts' = r.hosts
                /\ store' = cancel_uninstall_timer(store)
                /\ ui' = update_status(store', now)
                /\ Sensitive("turn_off", r.out)
                /\ off' = IF r.out = "ok" THEN "off" ELSE Settled(off)
    /\ UNCHANGED <<now, pc>>
    /\ ins' = NoInstall
    /\ ApplyFrame

proceed_uninstall(fail) ==
    /\ CanWrite
    /\ IF ~Ready
       THEN /\ evt' = NoEvt
            /\ off' = Settled(off)
            /\ UNCHANGED <<hosts, store, ui>>
       ELSE LET r == remove_block(hosts, fail)
            IN  /\ hosts' = r.hosts
                /\ store' = IF r.out = "ok" THEN cancel_uninstall_timer(store) ELSE store
                /\ ui' = update_status(store', now)
                /\ Sensitive("turn_off", r.out)
                /\ off' = IF r.out = "ok" THEN "off" ELSE Settled(off)
    /\ UNCHANGED <<now, pc>>
    /\ ins' = NoInstall
    /\ ApplyFrame

ClickProceed(fail) == pc = "idle" /\ ui.proceed /\ proceed_uninstall(fail)
TrayTurnOff(fail) == pc \in WindowPcs /\ proceed_uninstall(fail)

\* _apply_blocks that also cancels the timer.
apply_blocks_cancel(fail) ==
    /\ CanWrite
    /\ LET r == apply_block(hosts, get_domains(store), fail)
       IN  /\ hosts' = r.hosts
           /\ store' = cancel_uninstall_timer(store)
           /\ aev' = [timer |-> TimerState(store, now), out |-> r.out,
                      same |-> store' = store]
           /\ off' = IF r.out = "ok" THEN "no" ELSE Settled(off)
    /\ ui' = update_status(store', now)
    /\ evt' = NoEvt
    /\ ins' = NoInstall
    /\ UNCHANGED <<now, pc>>
    /\ OtherFrame

apply_blocks(fail) ==
    /\ CanWrite
    /\ LET r == apply_block(hosts, get_domains(store), fail)
       IN  /\ hosts' = r.hosts
           /\ store' = store
           /\ aev' = [timer |-> TimerState(store, now), out |-> r.out,
                      same |-> store' = store]
           /\ off' = IF r.out = "ok" THEN "no" ELSE Settled(off)
    /\ ui' = update_status(store', now)
    /\ evt' = NoEvt
    /\ ins' = NoInstall
    /\ UNCHANGED <<now, pc>>
    /\ OtherFrame

ClickApply(fail) == pc = "idle" /\ apply_blocks(fail)
TrayApply(fail) == pc \in WindowPcs /\ apply_blocks(fail)

\* _require_timer_ready: TRUE lets the handler go on to its dialog `then`;
\* with no timer it asks whether to start one; with a running timer it
\* tells the user to wait.
require_timer_ready(then) ==
    /\ pc' = IF Ready THEN then
             ELSE IF get_uninstall_started_at(store) = None THEN "ask_start"
             ELSE "idle"
    /\ evt' = NoEvt
    /\ UNCHANGED <<hosts, store, now, ui>>
    /\ HistFrame

ClickEdit == pc = "idle" /\ ui.edit /\ require_timer_ready("edit_dialog")
ClickUninstallApp == pc = "idle" /\ ui.uninstall /\ require_timer_ready("confirm_uninstall")

\* The answer to "Start now?".  The window enables the two buttons that
\* lead here only while it shows a started timer, and every handler that
\* clears the timer refreshes the window, so this process never reaches
\* the question; the action is not part of NextUI.
AnswerStart(yes) ==
    /\ pc = "ask_start"
    /\ pc' = "idle"
    /\ IF yes
       THEN store' = start_uninstall_timer(store, now) /\ ui' = update_status(store', now)
       ELSE UNCHANGED <<store, ui>>
    /\ evt' = NoEvt
    /\ UNCHANGED <<hosts, now>>
    /\ HistFrame

\* The answer to "Uninstall App ... Continue?"
AnswerUninstall(yes, fail) ==
    /\ pc = "confirm_uninstall"
    /\ CanWrite
    /\ IF ~yes
       THEN /\ pc' = "idle"
            /\ evt' = NoEvt
            /\ UNCHANGED <<hosts, store, ui>>
       ELSE LET r == remove_block(hosts, fail)
            IN  /\ hosts' = r.hosts
                /\ store' = IF r.out = "ok" THEN cancel_uninstall_timer(store) ELSE store
                /\ pc' = IF r.out = "ok" THEN "off" ELSE "idle"
                /\ ui' = IF r.out = "ok" THEN NoView ELSE ui
                /\ Sensitive("uninstall", r.out)
    /\ UNCHANGED now
    /\ HistFrame

\* EditDomainsDialog closed with OK (D is the text, one entry a line) ...
EditAccept(D) ==
    /\ pc = "edit_dialog"
    /\ pc' = "idle"
    /\ store' = set_domains(store, Kept(D))
    /\ ui' = update_status(store', now)
    /\ UNCHANGED <<hosts, now>>
    /\ Sensitive("edit", "ok")
    /\ HistFrame

\* ... or with Cancel.
EditReject ==
    /\ pc = "edit_dialog"
    /\ pc' = "idle"
    /\ evt' = NoEvt
    /\ UNCHANGED <<hosts, store, now, ui>>
    /\ HistFrame

NextUI ==
    \/ \E fail1 \in Fails, fail2 \in Fails : Launch(fail1, fail2)
    \/ \E D \in EditLists, fail \in Fails : OnbInstall(D, fail)
    \/ OnbClose
    \/ Quit
    \/ ClockTick
    \/ TimerTimeout
    \/ ClickStart
    \/ TrayStart
    \/ ClickCancel
    \/ TrayCancel
    \/ \E fail \in Fails : ClickProceed(fail)
    \/ \E fail \in Fails : TrayTurnOff(fail)
    \/ \E fail \in Fails : ClickApply(fail)
    \/ \E fail \in Fails : TrayApply(fail)
    \/ ClickEdit
    \/ ClickUninstallApp
    \/ \E yes \in BOOLEAN, fail \in Fails : AnswerUninstall(yes, fail)
    \/ \E D \in EditLists : EditAccept(D)
    \/ EditReject

SpecUI == InitUI /\ [][NextUI]_vars

(***************************************************************************)
(* Properties of the timer gate of the main window.                         *)
(***************************************************************************)
\* C1: once onboarding is completed, a removal of the block or a change of
\* the domain list through the main window happens only while the timer is
\* Ready.
C1_OnlyWhenReady ==
    (evt.kind # "none" /\ evt.onb /\ evt.out = "ok" /\ evt.changed) => evt.ready

\* C3: every sensitive operation that succeeds leaves the timer cleared.
C3_ConsumesReady == (evt.kind # "none" /\ evt.out = "ok") => evt.cleared

\* C3 as amended: turning blocking off and uninstalling clear the timer
\* when they succeed; saving an edited domain list leaves the timer as it
\* was.
C3_RemovalConsumesReady ==
    /\ (evt.kind \in {"turn_off", "uninstall"} /\ evt.out = "ok") => evt.cleared
    /\ evt.kind = "edit" => evt.kept

C3_Witness ==
    \/ evt.kind = "edit" /\ evt.ready /\ evt.kept /\ ~evt.cleared /\ Ready
    \/ evt.kind = "turn_off" /\ evt.ready /\ evt.out = "ok" /\ evt.changed /\ evt.cleared

FailedRemoval ==
    evt.kind \in {"turn_off", "uninstall"} /\ evt.ready /\ evt.out # "ok"

\* C4: a sensitive operation attempted in Ready whose removal fails leaves
\* the timer cleared.
C4_FailureClears == FailedRemoval => evt.cleared

\* C4 as amended: a sensitive operation attempted in Ready whose removal
\* fails leaves the timer as it was, so the state stays Ready.
C4_FailureKeepsReady == FailedRemoval => (evt.kept /\ ~evt.cleared /\ Ready)

C4_Witness ==
    evt.kind = "turn_off" /\ evt.ready /\ evt.out = "PermissionError" /\ Ready

(***************************************************************************)
(* Properties of the persisted record under the main window.               *)
(***************************************************************************)
Pending == get_uninstall_started_at(store)

\* A step that starts the timer, and a step that cancels it or completes a
\* sensitive operation.
StartStep == ClickStart \/ TrayStart

ClearStep ==
    \/ ClickCancel
    \/ TrayCancel
    \/ \E fail \in Fails : ClickProceed(fail)
    \/ \E fail \in Fails : TrayTurnOff(fail)
    \/ \E fail \in Fails : AnswerUninstall(TRUE, fail)

C14_DomainsNeverEmpty == get_domains(store) # <<>>

\* C15: the timer is started only from Locked: a step that gives
\* pending_uninstall_started_at a new start time finds it cleared.
C15_StartOnlyFromLocked ==
    [][(Pending' # None /\ Pending' # Pending) => Pending = None]_vars

\* C16: "Apply blocks", in whatever state of the timer it runs (Locked,
\* Running or Ready), leaves the persisted record as it was, whether or not
\* the hosts file could be written.
C16_ApplyKeepsState ==
    aev.timer # "none" =>
        /\ aev.timer \in {"Locked", "Running", "Ready"}
        /\ aev.same
        /\ TimerState(store, now) = aev.timer

\* An apply that failed while the timer was running.
C16_Witness ==
    aev.timer = "Running" /\ aev.out = "PermissionError" /\ aev.same

(***************************************************************************)
(* The startup consistency check on its own: the process is launched with  *)
(* any persisted domain list and any hosts file.                            *)
(***************************************************************************)
StoredLists == {DEFAULT_DOMAINS} \cup {Kept(D) : D \in EditLists}

InitStartup ==
    /\ hosts \in Texts(UserFrags \cup MarkerFrags, MaxFrags)
    /\ hosts0 = hosts
    /\ last = NoCall
    /\ prev = NoPrev
    /\ ncalls = 0
    /\ store \in {[FirstRunState EXCEPT !.blocked_domains = L] : L \in StoredLists}
    /\ now = 0
    /\ pc = "off"
    /\ ui = NoView
    /\ evt = NoEvt
    /\ tlog = NoTimerEvt
    /\ disk = [json |-> Written(dumps(store)), tmp |-> NoFile]
    /\ sp = NoProcess
    /\ ret = NoRet
    /\ aev = NoApply
    /\ ins = NoInstall
    /\ off = "no"
    /\ xp = NoExpand

\* main(): Startup.ensure_consistency(state, hosts)
CallEnsure(fail1, fail2) ==
    /\ ncalls < MaxCalls
    /\ LET r == ensure_consistency_run(store, hosts, fail1, fail2)
       IN  /\ hosts' = r.hosts
           /\ Called("ensure_consistency", get_domains(store), r.out)
    /\ UNCHANGED <<hosts0, store, now, pc, ui, evt, tlog, disk, sp, ret, aev, ins, off, xp>>

NextStartup == \E fail1 \in Fails, fail2 \in Fails : CallEnsure(fail1, fail2)

SpecStartup == InitStartup /\ [][NextStartup]_vars

\* C17: when the consistency check returns, the block is active for the
\* persisted domains, or a read or write of the hosts file failed and the
\* file is as it was; when the block was active nothing was written.
C17_EnsureConsistency ==
    last.op = "ensure_consistency" =>
        /\ \/ is_block_active(hosts, get_domains(store))
           \/ last.out \in {"PermissionError", "OSError"} /\ hosts = last.pre
        /\ last.out = "active" => hosts = last.pre

(***************************************************************************)
(* Properties of the hosts-file editor on any hosts file and under         *)
(* failures of the file system.                                             *)
(***************************************************************************)
\* C18: on any hosts file, an apply_block(D) that may read and write the
\* file returns without error and leaves is_block_active(D) true and a
\* marked region in the file.
C18_ApplySelfCorrects ==
    (last.op = "apply_block" /\ last.out \notin {"PermissionError", "OSError"}) =>
        /\ last.out = "ok"
        /\ is_block_active(hosts, last.dom)
        /\ HasRegion(hosts)

\* The file with the region of its first start marker and the end marker
\* that follows it taken out; the file itself when a marker is missing.
Spliced(c) == IF HasBothMarkers(c) /\ HasRegion(c) THEN Outside(c) ELSE c

\* C19: on any hosts file, remove_block fails only when the file cannot be
\* read or written; when it returns, the region from the start marker
\* through the end marker is gone if both markers were there, and the file
\* is as it was otherwise.
C19_RemoveTotal ==
    last.op = "remove_block" =>
        /\ last.out \in {"ok", "PermissionError", "OSError"}
        /\ last.out = "ok" => hosts = Spliced(last.pre)
        /\ last.out # "ok" => hosts = last.pre

\* A step in which a call has to read the file under `fail`, or has to
\* write it: apply_block always writes, remove_block writes when both
\* markers are there, is_block_active never writes.
Denied(fail) ==
    \/ last'.op = "apply_block" /\ CallApply(last'.dom, fail)
    \/ /\ last'.op = "remove_block" /\ CallRemove(fail)
       /\ (fail \in {"read_perm", "read_io"} \/ HasBothMarkers(hosts))
    \/ last'.op = "is_block_active" /\ CallIsActive(last'.dom, fail)

\* C20: a call that cannot read or write the hosts file for lack of
\* privilege ends in PermissionError, a call that fails for another reason
\* of the file system ends in another error, the file is as it was, and
\* the call is made once.
C20_PermissionDenied ==
    [][/\ (Denied("read_perm") \/ Denied("write_perm")) =>
              /\ last'.out = "PermissionError"
              /\ hosts' = hosts
              /\ ncalls' = ncalls + 1
       /\ (Denied("read_io") \/ Denied("write_io")) =>
              /\ last'.out # "PermissionError"
              /\ last'.out # "ok"
              /\ hosts' = hosts]_vars

\* apply_block was denied the write after an earlier apply_block had
\* written the block.
C20_Witness ==
    /\ prev.op = "apply_block" /\ prev.out = "ok"
    /\ last.op = "apply_block" /\ last.out = "PermissionError"
    /\ hosts = last.pre /\ HasRegion(hosts)

(***************************************************************************)
(* The block and its test, on a hosts file that never held a marker.        *)
(***************************************************************************)
\* C25: from a hosts file without markers, is_block_active(D) is true right
\* after a successful apply_block(D), for every domain list D and the empty
\* one; right after a successful remove_block is_block_active(D') is false
\* for every D'.
C25_ActiveAfterApply ==
    /\ (last.op = "apply_block" /\ last.out = "ok") => is_block_active(hosts, last.dom)
    /\ (last.op = "remove_block" /\ last.out = "ok") =>
           \A D \in DomainLists : ~is_block_active(hosts, D)

\* remove_block took out the block that an apply_block of a padded domain
\* had written and found active.
C25_Witness ==
    /\ prev.op = "apply_block" /\ prev.out = "ok"
    /\ last.op = "remove_block" /\ last.out = "ok"
    /\ HasRegion(last.pre) /\ is_block_active(last.pre, << <<SP, WWW, "b.com", SP>> >>)
    /\ ~HasRegion(hosts)

(***************************************************************************)
(* _expand_domains on its own, called with every raw list.                  *)
(***************************************************************************)
\* Entries of a raw list: plain, padded and prefixed, already prefixed,
\* blank, empty.
ExpandInputs == RawDomains \cup { <<WWW, "a.com">>, <<SP>>, <<>> }

ExpandLists == ListsUpTo(ExpandInputs, MaxDoms + 1)

InitExpand ==
    /\ hosts = <<>>
    /\ hosts0 = hosts
    /\ InitOther

CallExpand(raw) ==
    /\ xp' = [raw |-> raw, out |-> expand_domains(raw), done |-> TRUE]
    /\ UNCHANGED <<hosts, hosts0, last, prev, ncalls, store, now, pc, ui, evt, tlog,
                   disk, sp, ret, aev, ins, off>>

NextExpand == \E raw \in ExpandLists : CallExpand(raw)

SpecExpand == InitExpand /\ [][NextExpand]_vars

\* C21: for every raw list, the expanded list is strictly ascending (so
\* sorted and free of duplicates), none of its entries is empty or padded
\* with whitespace, it holds every non-blank entry of the raw list trimmed
\* and, for each of those without the "www." prefix, its "www." form, and
\* it holds nothing else: no "www." form of an entry that has the prefix.
C21_ExpandCanonical ==
    xp.done =>
        LET out == xp.out
            T == {Strip(xp.raw[i]) : i \in 1..Len(xp.raw)} \ {<<>>}
            Bare == {d \in T : d[1] # WWW}
            S == {out[k] : k \in 1..Len(out)}
        IN  /\ \A i \in 1..Len(out) : \A j \in 1..Len(out) :
                   i < j => StrLess(out[i], out[j])
            /\ \A e \in S : e # <<>> /\ ~IsSpace(e[1]) /\ ~IsSpace(e[Len(e)])
            /\ S = T \cup {<<WWW>> \o d : d \in Bare}
            /\ \A d \in T \ Bare : (<<WWW>> \o d) \in S => (<<WWW>> \o d) \in T

\* A padded prefixed domain, a blank entry and a plain domain: three
\* entries come out, trimmed and in order.
C21_Witness ==
    /\ xp.done
    /\ xp.raw = << <<SP, WWW, "b.com", SP>>, <<SP>>, <<"a.com">> >>
    /\ xp.out = << <<"a.com">>, <<WWW, "a.com">>, <<WWW, "b.com">> >>

(***************************************************************************)
(* What the state file keeps of a domain list.                              *)
(***************************************************************************)
\* The entries of a list trimmed, the blank ones left out, in their order.
RECURSIVE Trimmed(_)
Trimmed(L) ==
    IF L = <<>> THEN <<>>
    ELSE LET d == Strip(Head(L))
         IN  (IF d = <<>> THEN <<>> ELSE <<d>>) \o Trimmed(Tail(L))

\* set_domains(L) has returned and the load() of a get_domains() is the
\* next thing the store did.
SetThenGet ==
    /\ sp.op.name = "set_domains" /\ sp.call = "save" /\ sp.pc = "idle"
    /\ ~sp.crashed /\ ret.out = "ok"

\* C22: get_domains() after set_domains(L) returns the entries of L
\* trimmed, without the blank ones, in the order of L and without "www."
\* forms added; that list, and not the expanded one, is in the state file.
C22_RawListStored ==
    SetThenGet =>
        /\ get_domains(ret.val) = Trimmed(sp.op.dom)
        /\ disk.json.exists /\ loads(disk.json.text).out = "dict"
        /\ disk.json.text.val.blocked_domains = Trimmed(sp.op.dom)
        /\ expand_domains(sp.op.dom) # Trimmed(sp.op.dom) =>
               disk.json.text.val.blocked_domains # expand_domains(sp.op.dom)

\* A list of a padded prefixed domain, a blank and a plain domain came back
\* as two entries in that order, where the expanded list has three.
C22_Witness ==
    /\ SetThenGet
    /\ sp.op.dom = << <<SP, WWW, "b.com", SP>>, <<SP>>, <<"a.com">> >>
    /\ get_domains(ret.val) = << <<WWW, "b.com">>, <<"a.com">> >>
    /\ Len(expand_domains(sp.op.dom)) = 3

(***************************************************************************)
(* The accessors of the store on a state file of any content.               *)
(***************************************************************************)
\* C24: whatever state.json holds, get_domains, get_uninstall_started_at
\* and uninstall_ready return a value: a call that did not fail in writing
\* the reset file ends with the dict of the file or the defaults, and not
\* in an exception.
C24_AccessorsNeverRaise ==
    ret.out # "error" =>
        /\ ret.out \in {"none", "ok", "reset"}
        /\ ret.out # "none" =>
               /\ get_uninstall_started_at(ret.val) \in Nat \cup {None}
               /\ uninstall_ready(ret.val, now, UNINSTALL_DELAY_SECONDS) \in BOOLEAN

(***************************************************************************)
(* The window against the guard of the store.                               *)
(***************************************************************************)
\* C27: what the main window shows when it has just refreshed agrees with
\* the guard at every clock value: it shows "Timer done" and enables the
\* turn-off, edit and uninstall buttons exactly when uninstall_ready(900)
\* is true, and it shows the running countdown exactly when a timer is
\* started and uninstall_ready(900) is false.
C27_DisplayAgreesWithGuard ==
    (pc \in WindowPcs /\ ui = update_status(store, now)) =>
        /\ (ui.status = "Timer done" /\ ui.proceed /\ ui.edit /\ ui.uninstall) <=> Ready
        /\ (ui.status = "Turn-off timer running") <=>
               (get_uninstall_started_at(store) # None /\ ~Ready)

(***************************************************************************)
(* Onboarding, and the block across a restart.                              *)
(***************************************************************************)
\* C23: an install of the onboarding dialog that marks onboarding complete
\* has persisted the selected domains and applied the block for them, so
\* that is_block_active of them holds; an install whose hosts write failed
\* does not mark onboarding complete.
C23_CompleteOnlyWhenApplied ==
    ins.done => (ins.persisted /\ ins.out = "ok" /\ ins.active)

\* C23 as amended: an install that marks onboarding complete has persisted
\* the selected domains, and either it applied the block for them
\* (is_block_active of them holds) or apply_block was refused for lack of
\* permission and the hosts file is as it was; an install that failed in
\* another way does not mark onboarding complete.
C23_CompleteWhenAppliedOrDenied ==
    /\ ins.done =>
           /\ ins.persisted
           /\ \/ ins.out = "ok" /\ ins.active
              \/ ins.out = "PermissionError" /\ ins.kept
    /\ ins.out \notin {"none", "ok", "PermissionError"} => ~ins.done

\* The install was refused the hosts file: onboarding is complete, the
\* window is open, the domains are stored and no block is in the file.
C23_Witness ==
    /\ ins.done /\ ins.out = "PermissionError" /\ ins.kept /\ ins.persisted
    /\ ~ins.active /\ ~HasRegion(hosts)
    /\ pc = "idle" /\ is_onboarding_completed(store)

\* C26: once the window has turned blocking off, the hosts file has no
\* block region until "Apply blocks" is invoked, whatever else the program
\* does, a restart with its consistency check included.
C26_OffUntilApply == off # "no" => ~HasRegion(hosts)

\* C26 as amended: once the window has turned blocking off, the hosts file
\* has no block region until "Apply blocks" is invoked or the program is
\* launched again and its consistency check re-applies the block.
C26_OffUntilApplyOrLaunch == off = "off" => ~HasRegion(hosts)

\* Blocking was turned off, the program was quit and launched again, and
\* the block is back in the hosts file with no timer pending.
C26_Witness ==
    /\ off = "relaunched" /\ HasRegion(hosts)
    /\ pc = "idle" /\ get_uninstall_started_at(store) = None

====
